---- MODULE Spec2Model ----
(***************************************************************************)
(* Model of Vortex' ExtensionManager (src/src/util/ExtensionManager.ts):   *)
(*   - the extension pipeline: ContextProxyHandler (call recorder,        *)
(*     capability additions, unloadIncompatible) and the replay           *)
(*     operations apply / invokeAdditions / doOnce;                       *)
(*   - getModDB, the lazily created and rotated metadata store;           *)
(*   - stateChangeHandler, the per-path state change watcher;            *)
(*   - openArchive, the lazily built table of archive handlers.           *)
(* The parts do not share state; each has its own specifications          *)
(* (SpecExt, SpecReg, SpecLoad, SpecFate; SpecDB, SpecUse, SpecDBLive;     *)
(* SpecWatch, SpecNotify, SpecNested; SpecArchive) that leave the other    *)
(* parts' variables unchanged.                                             *)
(***************************************************************************)
EXTENDS Integers, Sequences, FiniteSets, TLC

VARIABLES
  \* ---- extension pipeline ----
  sUIAPIs,            \* ExtensionManager.sUIAPIs (static Set<string>)
  phase,              \* position of the constructor: "preinit", "registering", "ready"
  mExtensions,        \* IRegisteredExtension[]: <<[name, path]>>
  cursor,             \* index of the extension whose initFunc is running
  mCurrentExtension,  \* ContextProxyHandler.mCurrentExtension
  mCurrentPath,       \* ContextProxyHandler.mCurrentPath
  mInitCalls,         \* ContextProxyHandler.mInitCalls : IInitCall[]
  mApiAdditions,      \* ContextProxyHandler.mApiAdditions : IApiAddition[]
  disk,               \* what loadExtensions found: built-in entry points, directory listings
  initOrder,          \* history: the extensions whose initFunc was started, in order
  setLog,             \* history: the keys assigned on the context proxy, in order
  initThrew,          \* history: the indices of the extensions whose initFunc threw
  recordedCalls,      \* history: mInitCalls as it was when unloadIncompatible started
  ignoredLog,         \* history: names logged as 'extensions ignored for using unsupported api'
  lastOp,             \* the replay operation that ran last
  invoked,            \* the handler invocations that operation made, in order
  onceRuns,           \* history: the number of doOnce calls made
  onceInvoked,        \* history: the calls whose startup callback doOnce invoked, in order
  \* ---- getModDB ----
  storeGame,          \* activeGameId(store.getState())
  storeKey,           \* state.confidential.account.nexus.APIKey
  mModDB,             \* this.mModDB: 0 (undefined) or the id of a ModDB instance
  mModDBGame,         \* this.mModDBGame
  mModDBAPIKey,       \* this.mModDBAPIKey
  mModDBPromise,      \* this.mModDBPromise: "undefined", "pending", "resolved"
  calls,              \* the getModDB calls in flight: caller -> its position and locals
  instances,          \* every ModDB constructed so far: <<[game, key, state, closeCalls]>>
  \* ---- stateChangeHandler ----
  mReduxWatcher,      \* this.mReduxWatcher: "undefined" or "watcher"
  mApiOnStateChange,  \* this.mApi.onStateChange: "stub" or "stateChangeHandler"
  mWatches,           \* IWatcherRegistry: key -> StateChangeCallback[]
  subscriptions,      \* the subscriptions made with mReduxWatcher.watch, in order
  registrations,      \* history: the onStateChange calls made, with their outcome
  lastValue,          \* key -> lastValue of the closure of that key's subscription
  notified,           \* history: the last notification of the watcher
  fired,              \* history: the callback invocations it made, in order
  notifiedKeys,       \* history: the keys whose subscription callback has run
  \* ---- openArchive ----
  mArchiveHandlers,   \* this.mArchiveHandlers: [defined, table: format -> creator]
  archiveRegistered,  \* history: the registerArchiveHandler calls made, in order
  lastOpen            \* history: the last openArchive call and its result

extVars == <<sUIAPIs, phase, mExtensions, cursor, mCurrentExtension, mCurrentPath,
             mInitCalls, mApiAdditions, disk, initOrder, setLog, initThrew,
             recordedCalls, ignoredLog, lastOp, invoked, onceRuns, onceInvoked>>
dbVars == <<storeGame, storeKey, mModDB, mModDBGame, mModDBAPIKey, mModDBPromise,
            calls, instances>>
watchVars == <<mReduxWatcher, mApiOnStateChange, mWatches, subscriptions, registrations,
               lastValue, notified, fired, notifiedKeys>>
archVars == <<mArchiveHandlers, archiveRegistered, lastOpen>>
vars == <<extVars, dbVars, watchVars, archVars>>

Range(s) == {s[i] : i \in DOMAIN s}

(***************************************************************************)
(* Bounds of the model.                                                    *)
(***************************************************************************)
MaxCalls == 3         \* recorded calls per load
MaxAdditions == 2     \* capability additions per load
NumCallers == 3       \* getModDB calls
MaxRegistrations == 3 \* onStateChange calls
MaxCandidates == 2    \* entries of the plugins directory
MaxArchiveTypes == 2  \* recorded calls to registerArchiveType
MaxOnceRuns == 2      \* doOnce calls
NumLiveCallers == 2   \* getModDB calls followed to their end
MaxNesting == 2       \* depth of nested notifications followed

(***************************************************************************)
(* ContextProxyHandler                                                     *)
(***************************************************************************)

\* Object.keys(dummy) of the staticAPIs getter
staticAPIs ==
  {"registerMainPage", "registerDashlet", "registerDialog", "registerSettings",
   "registerAction", "registerFooter", "registerToDo", "registerModSource",
   "registerReducer", "registerPersistor", "registerSettingsHive",
   "registerTableAttribute", "registerTest", "registerArchiveType", "registerGame",
   "registerAttributeExtractor", "api", "once", "onceMain", "optional"}

\* the members of the real context object handed to the proxy: { api: this.mApi }
ContextMembers == {"api"}

\* capability names the modelled extensions call (CallKeys), call through
\* context.optional (OptionalKeys) or add (AdditionKeys); "registerWidget" is
\* not a static capability: it is supported only if an extension adds it or
\* the host registers it as UI API
CallKeys == {"registerReducer", "once", "registerWidget"}
OptionalKeys == {"registerWidget"}
AdditionKeys == {"registerWidget"}
UIAPINames == {"registerWidget"}

\* the IInitCall pushed by the proxies (get trap and mOptional get trap)
InitCallUntagged(key, args, optional) ==
  [extension |-> "undefined", extensionPath |-> <<>>,
   key |-> key, arguments |-> args, optional |-> optional]
InitCall(key, args, optional) ==
  [extension |-> mCurrentExtension, extensionPath |-> mCurrentPath,
   key |-> key, arguments |-> args, optional |-> optional]

\* getCalls(name): the recorded calls to `name`, in log order
GetCallsDropFirst(log, name) ==
  LET sel == SelectSeq(log, LAMBDA call : call.key = name)
  IN  IF sel = <<>> THEN sel ELSE Tail(sel)
GetCallsSkipOptional(log, name) ==
  SelectSeq(log, LAMBDA call : call.key = name /\ ~call.optional)
GetCalls(log, name) == SelectSeq(log, LAMBDA call : call.key = name)

\* fullAPI of unloadIncompatible
FullAPINoAdditions(furtherAPIs, additions) == furtherAPIs \cup staticAPIs
FullAPI(furtherAPIs, additions) ==
  furtherAPIs \cup staticAPIs \cup {additions[i].key : i \in DOMAIN additions}

\* the filter predicate of unloadIncompatible: an unsupported api call
UnsupportedIgnoringOptional(call, fullAPI) == call.key \notin fullAPI
Unsupported(call, fullAPI) == ~call.optional /\ call.key \notin fullAPI

\* incompatibleExtensions: the names of the extensions with an unsupported call
IncompatibleExtensions(log, fullAPI) ==
  {log[i].extension : i \in {j \in DOMAIN log : Unsupported(log[j], fullAPI)}}

\* the second filter of unloadIncompatible: drop every call of those extensions
PruneByPath(log, incompatible, fullAPI) ==
  SelectSeq(log, LAMBDA call :
    \A k \in DOMAIN log :
      Unsupported(log[k], fullAPI) => log[k].extensionPath # call.extensionPath)
PruneOffendingOnly(log, incompatible, fullAPI) ==
  SelectSeq(log, LAMBDA call : ~Unsupported(call, fullAPI))
Prune(log, incompatible, fullAPI) ==
  SelectSeq(log, LAMBDA call : call.extension \notin incompatible)

\* unloadIncompatible(furtherAPIs): the log it leaves
UnloadIncompatibleLogOnly(log, additions, furtherAPIs) == log
UnloadIncompatible(log, additions, furtherAPIs) ==
  LET fullAPI == FullAPI(furtherAPIs, additions)
      incompatible == IncompatibleExtensions(log, fullAPI)
  IN  IF Cardinality(incompatible) > 0
        THEN Prune(log, incompatible, fullAPI)
        ELSE log

(***************************************************************************)
(* loadExtensions                                                          *)
(***************************************************************************)

\* the built-in extensions; the model keeps the first of the list of twenty
staticExtensions == <<"settings_interface">>

\* A directory entry is [name, isDirectory, index] where index is what
\* loadDynamicExtension finds in it: "ok" (index.js exists and loads),
\* "absent" (no index.js) or "throws" (require(indexPath) throws an Error).
\* The entry point of a built-in extension is "ok", "missing" or "throws".

\* loadDynamicExtension as seen by the map of loadDynamicExtensions: the
\* extension, or undefined (<<>>) when there is no index.js and when the
\* exception of require was caught
LoadDynamicExtension(dir, cand) ==
  IF cand.index = "ok"
    THEN <<[name |-> cand.name, path |-> <<dir, cand.name>>]>>
    ELSE <<>>

\* whether an exception of loadDynamicExtension leaves the map of
\* loadDynamicExtensions: the body of the map is a try block whose catch logs
\* and returns undefined
EscapesWithoutTry(cand) == cand.index = "throws"
Escapes(cand) == FALSE

\* loadDynamicExtensions: keep the directories of the listing, map them with
\* loadDynamicExtension, then drop undefined (a missing directory is created
\* and gives the empty list, like an empty one)
RECURSIVE LoadDynamicExtensions(_, _)
LoadDynamicExtensions(dir, listing) ==
  IF listing = <<>> THEN <<>>
  ELSE (IF Head(listing).isDirectory
          THEN LoadDynamicExtension(dir, Head(listing))
          ELSE <<>>)
         \o LoadDynamicExtensions(dir, Tail(listing))

LoadDynamicExtensionsThrows(listing) ==
  \E i \in DOMAIN listing : listing[i].isDirectory /\ Escapes(listing[i])

\* loadExtensions: the built-in extensions in the order of staticExtensions,
\* then the extensions of bundledPath, then those of extensionsPath
LoadExtensionsPluginsFirst(bundled, plugins) ==
  [i \in DOMAIN staticExtensions |->
      [name |-> staticExtensions[i], path |-> <<"bundledPlugins", staticExtensions[i]>>]]
    \o LoadDynamicExtensions("plugins", plugins)
    \o LoadDynamicExtensions("bundledPlugins", bundled)
LoadExtensions(bundled, plugins) ==
  [i \in DOMAIN staticExtensions |->
      [name |-> staticExtensions[i], path |-> <<"bundledPlugins", staticExtensions[i]>>]]
    \o LoadDynamicExtensions("bundledPlugins", bundled)
    \o LoadDynamicExtensions("plugins", plugins)

\* loadExtensions throws: require of a built-in entry point throws (missing
\* module or exception while loading), or an exception leaves
\* loadDynamicExtensions
LoadExtensionsThrows(builtin, bundled, plugins) ==
  \/ \E i \in DOMAIN builtin : builtin[i] # "ok"
  \/ LoadDynamicExtensionsThrows(bundled)
  \/ LoadDynamicExtensionsThrows(plugins)

\* the installation the extension pipeline is explored with: the built-in
\* extensions load and there is one dynamic extension, with a name of its own
\* or with the name of a built-in
NoDisk == [builtin |-> <<>>, bundled |-> <<>>, plugins |-> <<>>]
ExtBuiltin == {[i \in DOMAIN staticExtensions |-> "ok"]}
ExtBundled == {<<>>}
ExtPlugins == {<<[name |-> "plugin_a", isDirectory |-> TRUE, index |-> "ok"]>>,
               <<[name |-> "settings_interface", isDirectory |-> TRUE, index |-> "ok"]>>}

(***************************************************************************)
(* Extension pipeline: actions                                             *)
(***************************************************************************)
NoOp == [op |-> "none", name |-> "", propagated |-> FALSE]

InitExt ==
  /\ sUIAPIs = {}
  /\ phase = "preinit"
  /\ mExtensions = <<>>
  /\ cursor = 0
  /\ mCurrentExtension = "undefined"
  /\ mCurrentPath = <<>>
  /\ mInitCalls = <<>>
  /\ mApiAdditions = <<>>
  /\ disk = NoDisk
  /\ initOrder = <<>>
  /\ setLog = <<>>
  /\ initThrew = {}
  /\ recordedCalls = <<>>
  /\ ignoredLog = {}
  /\ lastOp = NoOp
  /\ invoked = <<>>
  /\ onceRuns = 0
  /\ onceInvoked = <<>>

\* ExtensionManager.registerUIAPI(name); the set is read once, by the
\* constructor (initExtensions), so the host registers before constructing
RegisterUIAPI(name) ==
  /\ phase = "preinit"
  /\ sUIAPIs' = sUIAPIs \cup {name}
  /\ UNCHANGED <<phase, mExtensions, cursor, mCurrentExtension, mCurrentPath,
                 mInitCalls, mApiAdditions, disk, initOrder, setLog, initThrew,
                 recordedCalls, ignoredLog, lastOp, invoked, onceRuns, onceInvoked>>

\* the end of initExtensions: unloadIncompatible(ExtensionManager.sUIAPIs)
FinishRegistration ==
  /\ phase' = "ready"
  /\ recordedCalls' = mInitCalls
  /\ ignoredLog' = IncompatibleExtensions(mInitCalls, FullAPI(sUIAPIs, mApiAdditions))
  /\ mInitCalls' = UnloadIncompatible(mInitCalls, mApiAdditions, sUIAPIs)

\* initExtensions, forEach body: setExtension(ext.name, ext.path) before initFunc
StartExtension(i) ==
  /\ cursor' = i
  /\ mCurrentExtension' = mExtensions'[i].name
  /\ mCurrentPath' = mExtensions'[i].path
  /\ initOrder' = Append(initOrder, mExtensions'[i])

\* constructor: loadExtensions(), then initExtensions() up to the first
\* initFunc; an exception of loadExtensions leaves the constructor
Construct(builtin, bundled, plugins) ==
  /\ phase = "preinit"
  /\ disk' = [builtin |-> builtin, bundled |-> bundled, plugins |-> plugins]
  /\ IF LoadExtensionsThrows(builtin, bundled, plugins)
       THEN /\ phase' = "failed"
            /\ UNCHANGED <<mExtensions, cursor, mCurrentExtension, mCurrentPath,
                           initOrder>>
       ELSE /\ mExtensions' = LoadExtensions(bundled, plugins)
            /\ StartExtension(1)
            /\ phase' = "registering"
  /\ UNCHANGED <<sUIAPIs, mInitCalls, mApiAdditions, setLog, initThrew, recordedCalls,
                 ignoredLog, lastOp, invoked, onceRuns, onceInvoked>>

\* get trap of the context proxy, the returned function being called:
\* context.<key>(args)
ProxyGetCall(key) ==
  /\ phase = "registering"
  /\ Len(mInitCalls) < MaxCalls
  /\ IF key \in ContextMembers \/ key = "optional"
       THEN UNCHANGED mInitCalls
       ELSE mInitCalls' = Append(mInitCalls,
                                 InitCall(key, <<Len(mInitCalls) + 1>>, FALSE))
  /\ UNCHANGED <<sUIAPIs, phase, mExtensions, cursor, mCurrentExtension, mCurrentPath,
                 mApiAdditions, disk, initOrder, setLog, initThrew, recordedCalls,
                 ignoredLog, lastOp, invoked, onceRuns, onceInvoked>>

\* get trap of the mOptional proxy: context.optional.<key>(args)
OptionalGetCall(key) ==
  /\ phase = "registering"
  /\ Len(mInitCalls) < MaxCalls
  /\ mInitCalls' = Append(mInitCalls, InitCall(key, <<Len(mInitCalls) + 1>>, TRUE))
  /\ UNCHANGED <<sUIAPIs, phase, mExtensions, cursor, mCurrentExtension, mCurrentPath,
                 mApiAdditions, disk, initOrder, setLog, initThrew, recordedCalls,
                 ignoredLog, lastOp, invoked, onceRuns, onceInvoked>>

\* the set trap: push { key, callback: value }, whatever the key
SetUnlessKnown(additions, key, value) ==
  IF key \in staticAPIs \cup {additions[i].key : i \in DOMAIN additions}
    THEN additions
    ELSE Append(additions, [key |-> key, callback |-> value])
Set(additions, key, value) == Append(additions, [key |-> key, callback |-> value])

\* set trap of the context proxy: context.<key> = callback; the callback is
\* an opaque function of the extension being initialised, named here by the
\* index of that extension and the number of the assignment
ProxySet(key) ==
  /\ phase = "registering"
  /\ Len(setLog) < MaxAdditions
  /\ setLog' = Append(setLog, key)
  /\ mApiAdditions' = Set(mApiAdditions, key,
                          [ext |-> cursor, n |-> Len(setLog) + 1])
  /\ UNCHANGED <<sUIAPIs, phase, mExtensions, cursor, mCurrentExtension, mCurrentPath,
                 mInitCalls, disk, initOrder, initThrew, recordedCalls, ignoredLog,
                 lastOp, invoked, onceRuns, onceInvoked>>

\* the forEach of initExtensions goes on while there are extensions left
MoreExtensionsFirstOnly(at, extensions) == at < 1
MoreExtensions(at, extensions) == at < Len(extensions)

\* whether an exception of initFunc leaves the forEach of initExtensions:
\* the call is in a try block whose catch logs the extension and the message
InitFuncEscapesWithoutTry(outcome) == outcome = "threw"
InitFuncEscapes(outcome) == FALSE

\* initFunc of the current extension ends: it returns ("returned"), or it
\* throws an Error ("threw") and the catch logs it. Either way the loop moves
\* on, and after the last extension initExtensions runs unloadIncompatible
InitFuncEnds(outcome) ==
  /\ phase = "registering"
  /\ initThrew' = IF outcome = "threw" THEN initThrew \cup {cursor} ELSE initThrew
  /\ UNCHANGED <<sUIAPIs, mExtensions, mApiAdditions, disk, setLog, lastOp, invoked, onceRuns, onceInvoked>>
  /\ IF InitFuncEscapes(outcome)
       THEN /\ phase' = "failed"
            /\ UNCHANGED <<cursor, mCurrentExtension, mCurrentPath, initOrder,
                           mInitCalls, recordedCalls, ignoredLog>>
       ELSE IF MoreExtensions(cursor, mExtensions)
         THEN /\ StartExtension(cursor + 1)
              /\ UNCHANGED <<phase, mInitCalls, recordedCalls, ignoredLog>>
         ELSE /\ FinishRegistration
              /\ UNCHANGED <<cursor, mCurrentExtension, mCurrentPath, initOrder>>

\* apply(funcName, func): func(...call.arguments) for each recorded call
Apply(funcName) ==
  /\ phase = "ready"
  /\ lastOp' = [op |-> "apply", name |-> funcName, propagated |-> FALSE]
  /\ invoked' = [i \in DOMAIN GetCalls(mInitCalls, funcName) |->
                   [handler |-> <<"func", funcName>>,
                    call |-> GetCalls(mInitCalls, funcName)[i],
                    args |-> GetCalls(mInitCalls, funcName)[i].arguments]]
  /\ UNCHANGED <<sUIAPIs, phase, mExtensions, cursor, mCurrentExtension, mCurrentPath,
                 mInitCalls, mApiAdditions, disk, initOrder, setLog, initThrew,
                 recordedCalls, ignoredLog, onceRuns, onceInvoked>>

\* invokeAdditions: for each addition, for each call to its key,
\* addition.callback(...call.arguments, call.extensionPath)
RECURSIVE AdditionInvocationsWithoutPath(_, _)
AdditionInvocationsWithoutPath(additions, log) ==
  IF additions = <<>> THEN <<>>
  ELSE LET addition == Head(additions)
           sel == GetCalls(log, addition.key)
       IN  [i \in DOMAIN sel |->
              [handler |-> <<"addition", addition.callback>>,
               call |-> sel[i],
               args |-> sel[i].arguments]]
             \o AdditionInvocationsWithoutPath(Tail(additions), log)
RECURSIVE AdditionInvocations(_, _)
AdditionInvocations(additions, log) ==
  IF additions = <<>> THEN <<>>
  ELSE LET addition == Head(additions)
           sel == GetCalls(log, addition.key)
       IN  [i \in DOMAIN sel |->
              [handler |-> <<"addition", addition.callback>>,
               call |-> sel[i],
               args |-> Append(sel[i].arguments, sel[i].extensionPath)]]
             \o AdditionInvocations(Tail(additions), log)

InvokeAdditions ==
  /\ phase = "ready"
  /\ lastOp' = [op |-> "invokeAdditions", name |-> "", propagated |-> FALSE]
  /\ invoked' = AdditionInvocations(mApiAdditions, mInitCalls)
  /\ UNCHANGED <<sUIAPIs, phase, mExtensions, cursor, mCurrentExtension, mCurrentPath,
                 mInitCalls, mApiAdditions, disk, initOrder, setLog, initThrew,
                 recordedCalls, ignoredLog, onceRuns, onceInvoked>>

\* the forEach of doOnce over the calls to 'once': call.arguments[0]() inside
\* a try block, the catch logging the failure. throwing holds the positions
\* of the callbacks that throw an Error.
RECURSIVE OnceLoopWithoutTry(_, _, _)
OnceLoopWithoutTry(onceCalls, throwing, i) ==
  IF i > Len(onceCalls) THEN [invocations |-> <<>>, propagated |-> FALSE]
  ELSE LET this == [handler |-> <<"once", onceCalls[i].arguments[1]>>,
                    call |-> onceCalls[i], args |-> <<>>, threw |-> i \in throwing]
           rest == OnceLoopWithoutTry(onceCalls, throwing, i + 1)
       IN  IF i \in throwing
             THEN [invocations |-> <<this>>, propagated |-> TRUE]
             ELSE [invocations |-> <<this>> \o rest.invocations,
                   propagated |-> rest.propagated]
RECURSIVE OnceLoop(_, _, _)
OnceLoop(onceCalls, throwing, i) ==
  IF i > Len(onceCalls) THEN [invocations |-> <<>>, propagated |-> FALSE]
  ELSE LET this == [handler |-> <<"once", onceCalls[i].arguments[1]>>,
                    call |-> onceCalls[i], args |-> <<>>, threw |-> i \in throwing]
           rest == OnceLoop(onceCalls, throwing, i + 1)
       IN  [invocations |-> <<this>> \o rest.invocations,
            propagated |-> rest.propagated]

\* whether doOnce has run its course: the manager keeps no record of a
\* doOnce call, so it never has
OnceRunIsTerminal(runs) == runs > 0
OnceRun(runs) == FALSE

\* doOnce: the calls to 'once' in the renderer process (remote !== undefined),
\* to 'onceMain' in the main process
DoOnce(remote, throwing) ==
  LET name == IF remote THEN "once" ELSE "onceMain"
      loop == IF OnceRun(onceRuns)
                THEN [invocations |-> <<>>, propagated |-> FALSE]
                ELSE OnceLoop(GetCalls(mInitCalls, name), throwing, 1)
  IN  /\ phase = "ready"
      /\ onceRuns < MaxOnceRuns
      /\ throwing \subseteq DOMAIN GetCalls(mInitCalls, name)
      /\ lastOp' = [op |-> "doOnce", name |-> name, propagated |-> loop.propagated]
      /\ invoked' = loop.invocations
      /\ onceRuns' = onceRuns + 1
      /\ onceInvoked' = onceInvoked
                          \o [k \in DOMAIN loop.invocations |-> loop.invocations[k].call]
  /\ UNCHANGED <<sUIAPIs, phase, mExtensions, cursor, mCurrentExtension, mCurrentPath,
                 mInitCalls, mApiAdditions, disk, initOrder, setLog, initThrew,
                 recordedCalls, ignoredLog>>

\* the capabilities the host replays with apply: the ones it implements,
\* that is the static ones and those it registered with registerUIAPI
\* ('once' is replayed by doOnce)
HostApplies == ((staticAPIs \cup sUIAPIs) \cap CallKeys) \ {"once"}

\* the process the pipeline is explored in: the renderer, where the electron
\* module has a remote member (remote !== undefined)
Processes == {TRUE}

NextExt ==
  \/ /\ \E name \in UIAPINames : RegisterUIAPI(name)
     /\ UNCHANGED <<dbVars, watchVars, archVars>>
  \/ /\ \E builtin \in ExtBuiltin, bundled \in ExtBundled, plugins \in ExtPlugins :
          Construct(builtin, bundled, plugins)
     /\ UNCHANGED <<dbVars, watchVars, archVars>>
  \/ /\ \E key \in CallKeys : ProxyGetCall(key)
     /\ UNCHANGED <<dbVars, watchVars, archVars>>
  \/ /\ \E key \in OptionalKeys : OptionalGetCall(key)
     /\ UNCHANGED <<dbVars, watchVars, archVars>>
  \/ /\ \E key \in AdditionKeys : ProxySet(key)
     /\ UNCHANGED <<dbVars, watchVars, archVars>>
  \/ /\ InitFuncEnds("returned")
     /\ UNCHANGED <<dbVars, watchVars, archVars>>
  \/ /\ \E funcName \in HostApplies : Apply(funcName)
     /\ UNCHANGED <<dbVars, watchVars, archVars>>
  \/ /\ InvokeAdditions
     /\ UNCHANGED <<dbVars, watchVars, archVars>>
  \/ /\ \E remote \in Processes, throwing \in SUBSET (1..MaxCalls) :
          DoOnce(remote, throwing)
     /\ UNCHANGED <<dbVars, watchVars, archVars>>

\* loadExtensions on any installation: the entries of a directory have
\* different names; a file has no index.js in it
LoadNames == {"plugin_a", "plugin_b", "settings_interface"}
Candidates ==
  {c \in [name : LoadNames, isDirectory : BOOLEAN, index : {"ok", "absent", "throws"}] :
     ~c.isDirectory => c.index = "absent"}
Listings ==
  {l \in UNION {[1..n -> Candidates] : n \in 0..MaxCandidates} :
     \A i, j \in DOMAIN l : l[i].name = l[j].name => i = j}
LoadBuiltin == [DOMAIN staticExtensions -> {"ok", "missing", "throws"}]
LoadBundled == {l \in Listings : Len(l) <= 1}
LoadPlugins == Listings

\* the constructor alone: loadExtensions, then the registration pass with
\* registration functions that record nothing
NextLoad ==
  \/ /\ phase = "preinit"
     /\ \E builtin \in LoadBuiltin, bundled \in LoadBundled, plugins \in LoadPlugins :
          Construct(builtin, bundled, plugins)
     /\ UNCHANGED <<dbVars, watchVars, archVars>>
  \/ /\ InitFuncEnds("returned")
     /\ UNCHANGED <<dbVars, watchVars, archVars>>

\* the registration pass alone, with registration functions that throw and
\* with assignments of static capability names
RegAdditionKeys == AdditionKeys \cup {"registerReducer"}

NextReg ==
  \/ /\ \E builtin \in ExtBuiltin, bundled \in ExtBundled, plugins \in ExtPlugins :
          Construct(builtin, bundled, plugins)
     /\ UNCHANGED <<dbVars, watchVars, archVars>>
  \/ /\ \E key \in CallKeys : ProxyGetCall(key)
     /\ UNCHANGED <<dbVars, watchVars, archVars>>
  \/ /\ \E key \in OptionalKeys : OptionalGetCall(key)
     /\ UNCHANGED <<dbVars, watchVars, archVars>>
  \/ /\ \E key \in RegAdditionKeys : ProxySet(key)
     /\ UNCHANGED <<dbVars, watchVars, archVars>>
  \/ /\ \E outcome \in {"returned", "threw"} : InitFuncEnds(outcome)
     /\ UNCHANGED <<dbVars, watchVars, archVars>>

\* the pipeline with an extension that adds a capability and is itself
\* disqualified: "registerUnknown" is a capability nobody provides
FateCallKeys == {"registerWidget", "registerUnknown"}

NextFate ==
  \/ /\ \E builtin \in ExtBuiltin, bundled \in ExtBundled, plugins \in ExtPlugins :
          Construct(builtin, bundled, plugins)
     /\ UNCHANGED <<dbVars, watchVars, archVars>>
  \/ /\ \E key \in FateCallKeys : ProxyGetCall(key)
     /\ UNCHANGED <<dbVars, watchVars, archVars>>
  \/ /\ \E key \in AdditionKeys : ProxySet(key)
     /\ UNCHANGED <<dbVars, watchVars, archVars>>
  \/ /\ InitFuncEnds("returned")
     /\ UNCHANGED <<dbVars, watchVars, archVars>>
  \/ /\ InvokeAdditions
     /\ UNCHANGED <<dbVars, watchVars, archVars>>

(***************************************************************************)
(* getModDB                                                                *)
(***************************************************************************)
Callers == 1..NumCallers
\* the contexts <<active game id, API key>> the store goes through: the
\* initial one, one with another game and one with another key
Contexts == {<<"g1", "k1">>, <<"g2", "k1">>, <<"g1", "k2">>}

\* a getModDB call that has not been made yet
IdleCall ==
  [pc |-> "idle", currentGame |-> "undefined", currentKey |-> "undefined",
   onDone |-> FALSE, waited |-> FALSE, closing |-> 0, outcome |-> "none", result |-> 0,
   found |-> 0, reuse |-> FALSE, constructed |-> FALSE]

InitDB ==
  /\ storeGame = "g1"
  /\ storeKey = "k1"
  /\ mModDB = 0
  /\ mModDBGame = "undefined"
  /\ mModDBAPIKey = "undefined"
  /\ mModDBPromise = "undefined"
  /\ calls = [c \in Callers |-> IdleCall]
  /\ instances = <<>>

\* the condition of the first then(): no store, or one for another context
NeedsRotationGameOnly(db, dbGame, dbKey, game, key) ==
  db = 0 \/ game # dbGame
NeedsRotation(db, dbGame, dbKey, game, key) ==
  db = 0 \/ game # dbGame \/ key # dbKey

\* getModDB, the synchronous part. The store's state is read here and
\* nowhere else, so its changes between calls (another game is activated,
\* the API key changes) are the values game, key this call finds; the first
\* call finds the initial state. The call installs the gate if there is
\* none (init = Promise.resolve()), else it waits on it (init = the gate).
\* Callers are numbered in the order of their calls. found and reuse are
\* history: the store the call found and whether it was one for its context.
GetModDB(c, game, key) ==
  /\ calls[c].pc = "idle"
  /\ IF c = 1 THEN <<game, key>> = <<storeGame, storeKey>>
              ELSE calls[c - 1].pc # "idle"
  /\ storeGame' = game
  /\ storeKey' = key
  /\ calls' = [calls EXCEPT ![c] =
                 [@ EXCEPT !.pc = "init",
                           !.currentGame = game,
                           !.currentKey = key,
                           !.onDone = (mModDBPromise = "undefined"),
                           !.waited = (mModDBPromise = "pending"),
                           !.found = mModDB,
                           !.reuse = ~NeedsRotation(mModDB, mModDBGame, mModDBAPIKey,
                                                    game, key)]]
  /\ mModDBPromise' = IF mModDBPromise = "undefined" THEN "pending" ELSE mModDBPromise
  /\ UNCHANGED <<mModDB, mModDBGame, mModDBAPIKey, instances>>

\* the first then() of the chain, run once init is resolved: if the store is
\* missing or belongs to another context, close the existing one. An init
\* promise that was rejected skips both then() and rejects the call.
Step1(c) ==
  /\ calls[c].pc = "init"
  /\ calls[c].onDone \/ mModDBPromise \in {"resolved", "rejected"}
  /\ IF ~calls[c].onDone /\ mModDBPromise = "rejected"
       THEN /\ calls' = [calls EXCEPT ![c] =
                           [@ EXCEPT !.pc = "finally", !.outcome = "gateError"]]
            /\ UNCHANGED instances
       ELSE IF NeedsRotation(mModDB, mModDBGame, mModDBAPIKey,
                             calls[c].currentGame, calls[c].currentKey)
                 /\ mModDB # 0
         THEN /\ instances' = [instances EXCEPT ![mModDB].closeCalls = @ + 1]
              /\ calls' = [calls EXCEPT ![c] =
                             [@ EXCEPT !.pc = "closing", !.closing = mModDB]]
         ELSE /\ calls' = [calls EXCEPT ![c].pc = "step2"]
              /\ UNCHANGED instances
  /\ UNCHANGED <<storeGame, storeKey, mModDB, mModDBGame, mModDBAPIKey, mModDBPromise>>

\* this.mModDB.close() resolves: the instance is released
CloseResolves(c) ==
  /\ calls[c].pc = "closing"
  /\ instances' = [instances EXCEPT ![calls[c].closing].state = "closed"]
  /\ calls' = [calls EXCEPT ![c].pc = "closed"]
  /\ UNCHANGED <<storeGame, storeKey, mModDB, mModDBGame, mModDBAPIKey, mModDBPromise>>

\* this.mModDB.close() rejects: the second then() is skipped
CloseRejects(c) ==
  /\ calls[c].pc = "closing"
  /\ calls' = [calls EXCEPT ![c] = [@ EXCEPT !.pc = "finally", !.outcome = "closeError"]]
  /\ UNCHANGED <<storeGame, storeKey, mModDB, mModDBGame, mModDBAPIKey, mModDBPromise,
                 instances>>

\* .then(() => this.mModDB = undefined) after close()
ClearModDB(c) ==
  /\ calls[c].pc = "closed"
  /\ mModDB' = 0
  /\ calls' = [calls EXCEPT ![c].pc = "step2"]
  /\ UNCHANGED <<storeGame, storeKey, mModDBGame, mModDBAPIKey, mModDBPromise, instances>>

\* the condition of the second then(): construct only if there is no store
NeedsConstructAlways(db) == TRUE
NeedsConstruct(db) == db = 0

\* the second then(), new modmeta.ModDB(...) succeeding (or not needed):
\* the call's value is this.mModDB
Step2(c) ==
  /\ calls[c].pc = "step2"
  /\ IF NeedsConstruct(mModDB)
       THEN /\ instances' = Append(instances,
                                   [game |-> calls[c].currentGame,
                                    key |-> calls[c].currentKey,
                                    state |-> "open", closeCalls |-> 0])
            /\ mModDB' = Len(instances) + 1
            /\ mModDBGame' = calls[c].currentGame
            /\ mModDBAPIKey' = calls[c].currentKey
       ELSE UNCHANGED <<instances, mModDB, mModDBGame, mModDBAPIKey>>
  /\ calls' = [calls EXCEPT ![c] =
                 [@ EXCEPT !.pc = "finally", !.outcome = "instance", !.result = mModDB',
                           !.constructed = NeedsConstruct(mModDB)]]
  /\ UNCHANGED <<storeGame, storeKey, mModDBPromise>>

\* the second then(), new modmeta.ModDB(...) throwing: nothing is assigned
Step2Throws(c) ==
  /\ calls[c].pc = "step2"
  /\ NeedsConstruct(mModDB)
  /\ calls' = [calls EXCEPT ![c] =
                 [@ EXCEPT !.pc = "finally", !.outcome = "constructError"]]
  /\ UNCHANGED <<storeGame, storeKey, mModDB, mModDBGame, mModDBAPIKey, mModDBPromise,
                 instances>>

\* what finally() does to the gate: onDone is the gate's resolve
GateSettleRejectOnFailure(outcome) == IF outcome = "instance" THEN "resolved" ELSE "rejected"
GateSettle(outcome) == "resolved"

\* whether finally() calls onDone
ReleasesGateOnSuccessOnly(call) == call.onDone /\ call.outcome = "instance"
ReleasesGate(call) == call.onDone

\* finally(): the caller that installed the gate releases it; the call settles
Finally(c) ==
  /\ calls[c].pc = "finally"
  /\ mModDBPromise' = IF ReleasesGate(calls[c])
                        THEN GateSettle(calls[c].outcome)
                        ELSE mModDBPromise
  /\ calls' = [calls EXCEPT ![c].pc =
                 IF calls[c].outcome = "instance" THEN "resolved" ELSE "rejected"]
  /\ UNCHANGED <<storeGame, storeKey, mModDB, mModDBGame, mModDBAPIKey, instances>>

\* the requests made through the api: lookupModReference, lookupModMeta and
\* saveModMeta continue getModDB() with then(modDB => modDB.<operation>),
\* which issues the operation on the store the call resolved to
Operate(c) ==
  /\ calls[c].pc = "resolved"
  /\ calls' = [calls EXCEPT ![c].pc = "operating"]
  /\ UNCHANGED <<storeGame, storeKey, mModDB, mModDBGame, mModDBAPIKey, mModDBPromise,
                 instances>>

\* the promise of the operation (getByKey, lookup) settles
OperationEnds(c) ==
  /\ calls[c].pc = "operating"
  /\ calls' = [calls EXCEPT ![c].pc = "done"]
  /\ UNCHANGED <<storeGame, storeKey, mModDB, mModDBGame, mModDBAPIKey, mModDBPromise,
                 instances>>

NextDB ==
  \/ /\ \E c \in Callers, ctx \in Contexts : GetModDB(c, ctx[1], ctx[2])
     /\ UNCHANGED <<extVars, watchVars, archVars>>
  \/ /\ \E c \in Callers : Step1(c)
     /\ UNCHANGED <<extVars, watchVars, archVars>>
  \/ /\ \E c \in Callers : CloseResolves(c)
     /\ UNCHANGED <<extVars, watchVars, archVars>>
  \/ /\ \E c \in Callers : CloseRejects(c)
     /\ UNCHANGED <<extVars, watchVars, archVars>>
  \/ /\ \E c \in Callers : ClearModDB(c)
     /\ UNCHANGED <<extVars, watchVars, archVars>>
  \/ /\ \E c \in Callers : Step2(c)
     /\ UNCHANGED <<extVars, watchVars, archVars>>
  \/ /\ \E c \in Callers : Step2Throws(c)
     /\ UNCHANGED <<extVars, watchVars, archVars>>
  \/ /\ \E c \in Callers : Finally(c)
     /\ UNCHANGED <<extVars, watchVars, archVars>>

\* the continuation of call c that is queued or whose promise is pending:
\* a queued then() / finally() callback is run by the promise scheduler, and
\* close() is taken to settle
CallerStep(c) ==
  /\ \/ Step1(c)
     \/ CloseResolves(c)
     \/ CloseRejects(c)
     \/ ClearModDB(c)
     \/ Step2(c)
     \/ Step2Throws(c)
     \/ Finally(c)
  /\ UNCHANGED <<extVars, watchVars, archVars>>

\* getModDB with the first NumLiveCallers calls only
LiveCallers == 1..NumLiveCallers
NextDBLive ==
  /\ NextDB
  /\ \A c \in Callers \ LiveCallers : calls'[c].pc = "idle"

\* getModDB as used by the requests of the api
NextUse ==
  \/ NextDB
  \/ /\ \E c \in Callers : Operate(c)
     /\ UNCHANGED <<extVars, watchVars, archVars>>
  \/ /\ \E c \in Callers : OperationEnds(c)
     /\ UNCHANGED <<extVars, watchVars, archVars>>

(***************************************************************************)
(* stateChangeHandler                                                      *)
(***************************************************************************)

\* the watch paths the modelled extensions register; a segment is any
\* string, and may hold a dot
WatchPaths == {<<"a">>, <<"a", "b">>, <<"a.b">>}

\* watchPath.join('.')
RECURSIVE Join(_)
Join(watchPath) ==
  IF watchPath = <<>> THEN ""
  ELSE IF Len(watchPath) = 1 THEN Head(watchPath)
  ELSE Head(watchPath) \o "." \o Join(Tail(watchPath))

\* the values a watched path takes
Values == {"undefined", "x", "y"}

NoNotification ==
  [watchPath |-> <<>>, key |-> "", currentValue |-> "undefined",
   lastBefore |-> "undefined", nregs |-> 0, propagated |-> FALSE,
   first |-> FALSE, resets |-> 0, refired |-> <<>>]

InitWatch ==
  /\ mReduxWatcher = "undefined"
  /\ mApiOnStateChange = "stub"
  /\ mWatches = [k \in {} |-> <<>>]
  /\ subscriptions = <<>>
  /\ registrations = <<>>
  /\ lastValue = [k \in {} |-> "undefined"]
  /\ notified = NoNotification
  /\ fired = <<>>
  /\ notifiedKeys = {}

\* setStore (renderer process): creates the watcher and installs
\* stateChangeHandler as api.onStateChange; the host calls it once
SetStore ==
  /\ mApiOnStateChange = "stub"
  /\ mReduxWatcher' = "watcher"
  /\ mApiOnStateChange' = "stateChangeHandler"
  /\ UNCHANGED <<mWatches, subscriptions, registrations, lastValue, notified, fired,
                 notifiedKeys>>

\* setupApiMain (main process): installs stateChangeHandler as
\* api.onStateChange; mReduxWatcher is not assigned
SetupApiMain ==
  /\ mApiOnStateChange = "stub"
  /\ mApiOnStateChange' = "stateChangeHandler"
  /\ UNCHANGED <<mReduxWatcher, mWatches, subscriptions, registrations, lastValue,
                 notified, fired, notifiedKeys>>

\* 'let lastValue;': the variable the callback of a subscription closes over
\* holds undefined until the first notification assigns it
LetLastValueAssigned == "x"
LetLastValue == "undefined"

\* api.onStateChange(watchPath, callback); the callback is an opaque function,
\* named by the number of the call. Before setStore / setupApiMain the api
\* holds the stub of the constructor, which does nothing. In
\* stateChangeHandler, this.mReduxWatcher.watch throws a TypeError when
\* mReduxWatcher is undefined: the empty list has been stored by then and the
\* callback is not pushed. The callback of the subscription closes over the
\* lastValue of the call that subscribes, which is undefined.
OnStateChange(watchPath) ==
  LET key == Join(watchPath)
      callback == Len(registrations) + 1
      first == key \notin DOMAIN mWatches
      throws == first /\ mReduxWatcher = "undefined"
      withKey == [k \in DOMAIN mWatches \cup {key} |->
                    IF k \in DOMAIN mWatches THEN mWatches[k] ELSE <<>>]
  IN  /\ Len(registrations) < MaxRegistrations
      /\ UNCHANGED <<mReduxWatcher, mApiOnStateChange, notified, fired, notifiedKeys>>
      /\ lastValue' =
           IF mApiOnStateChange # "stub" /\ first /\ ~throws
             THEN [k \in DOMAIN lastValue \cup {key} |->
                     IF k \in DOMAIN lastValue THEN lastValue[k] ELSE LetLastValue]
             ELSE lastValue
      /\ IF mApiOnStateChange = "stub"
           THEN /\ registrations' = Append(registrations,
                     [path |-> watchPath, callback |-> callback, outcome |-> "ignored"])
                /\ UNCHANGED <<mWatches, subscriptions>>
           ELSE /\ registrations' = Append(registrations,
                     [path |-> watchPath, callback |-> callback,
                      outcome |-> IF throws THEN "threw" ELSE "registered"])
                /\ subscriptions' =
                     IF first /\ ~throws
                       THEN Append(subscriptions, [watchPath |-> watchPath, key |-> key])
                       ELSE subscriptions
                /\ mWatches' =
                     IF throws THEN withKey
                     ELSE [withKey EXCEPT ![key] = Append(@, callback)]

NextWatch ==
  \/ /\ SetStore
     /\ UNCHANGED <<extVars, dbVars, archVars>>
  \/ /\ SetupApiMain
     /\ UNCHANGED <<extVars, dbVars, archVars>>
  \/ /\ \E watchPath \in WatchPaths : OnStateChange(watchPath)
     /\ UNCHANGED <<extVars, dbVars, archVars>>

\* the test of the subscription callback: currentValue === lastValue
UnchangedNever(currentValue, last) == FALSE
Unchanged(currentValue, last) == currentValue = last

\* the loop of the subscription callback over this.mWatches[key]:
\* cb(prevValue, currentValue) inside a try block, the catch logging the
\* failure. throwing holds the positions of the callbacks that throw an
\* Error.
RECURSIVE CallbackLoopWithoutTry(_, _, _, _, _)
CallbackLoopWithoutTry(cbs, throwing, prevValue, currentValue, i) ==
  IF i > Len(cbs) THEN [invocations |-> <<>>, propagated |-> FALSE]
  ELSE LET this == [callback |-> cbs[i], args |-> <<prevValue, currentValue>>,
                    threw |-> i \in throwing]
           rest == CallbackLoopWithoutTry(cbs, throwing, prevValue, currentValue, i + 1)
       IN  IF i \in throwing
             THEN [invocations |-> <<this>>, propagated |-> TRUE]
             ELSE [invocations |-> <<this>> \o rest.invocations,
                   propagated |-> rest.propagated]
RECURSIVE CallbackLoop(_, _, _, _, _)
CallbackLoop(cbs, throwing, prevValue, currentValue, i) ==
  IF i > Len(cbs) THEN [invocations |-> <<>>, propagated |-> FALSE]
  ELSE LET this == [callback |-> cbs[i], args |-> <<prevValue, currentValue>>,
                    threw |-> i \in throwing]
           rest == CallbackLoop(cbs, throwing, prevValue, currentValue, i + 1)
       IN  [invocations |-> <<this>> \o rest.invocations,
            propagated |-> rest.propagated]

\* lastValue as the callbacks of the loop find it: 'lastValue =
\* currentValue' comes before the for loop
LastValueInLoopStale(last, currentValue) == last
LastValueInLoop(last, currentValue) == currentValue

\* the callbacks at the positions in resetting set the watched value again,
\* to the value it has, and the watcher notifies the subscription again from
\* inside that callback (redux-watch triggers even if the value has not
\* changed). last is lastValue as those callbacks find it. The result is the
\* callback invocations these nested notifications make, followed down to
\* MaxNesting levels.
RECURSIVE NestedFired(_, _, _, _, _, _)
NestedFired(cbs, resetting, currentValue, last, depth, i) ==
  IF i > Len(cbs) THEN <<>>
  ELSE (IF i \in resetting /\ ~Unchanged(currentValue, last) /\ depth < MaxNesting
          THEN [k \in DOMAIN cbs |->
                  [callback |-> cbs[k], args |-> <<currentValue, currentValue>>,
                   depth |-> depth + 1]]
                 \o NestedFired(cbs, resetting, currentValue,
                                LastValueInLoop(last, currentValue), depth + 1, 1)
          ELSE <<>>)
         \o NestedFired(cbs, resetting, currentValue, last, depth, i + 1)

\* the watcher notifies subscription s: the callback handed to
\* mReduxWatcher.watch runs with { prevValue, currentValue }, prevValue being
\* the value of the watcher's previous notification of s (undefined before
\* the first), which is what lastValue holds
Notify(s, currentValue, throwing, resetting) ==
  LET key == subscriptions[s].key
      prevValue == lastValue[key]
      loop == CallbackLoop(mWatches[key], throwing, prevValue, currentValue, 1)
      suppressed == Unchanged(currentValue, lastValue[key])
  IN  /\ throwing \subseteq DOMAIN mWatches[key]
      /\ resetting \subseteq DOMAIN mWatches[key]
      /\ notified' = [watchPath |-> subscriptions[s].watchPath, key |-> key,
                      currentValue |-> currentValue, lastBefore |-> lastValue[key],
                      nregs |-> Len(registrations),
                      propagated |-> IF suppressed THEN FALSE ELSE loop.propagated,
                      first |-> key \notin notifiedKeys,
                      resets |-> IF suppressed THEN 0 ELSE Cardinality(resetting),
                      refired |->
                        IF suppressed THEN <<>>
                        ELSE NestedFired(mWatches[key], resetting, currentValue,
                                         LastValueInLoop(lastValue[key], currentValue),
                                         0, 1)]
      /\ notifiedKeys' = notifiedKeys \cup {key}
      /\ lastValue' = IF suppressed THEN lastValue
                                    ELSE [lastValue EXCEPT ![key] = currentValue]
      /\ fired' = IF suppressed THEN <<>> ELSE loop.invocations
      /\ UNCHANGED <<mReduxWatcher, mApiOnStateChange, mWatches, subscriptions,
                     registrations>>

\* registrations and notifications
NextNotify ==
  \/ /\ SetStore
     /\ UNCHANGED <<extVars, dbVars, archVars>>
  \/ /\ SetupApiMain
     /\ UNCHANGED <<extVars, dbVars, archVars>>
  \/ /\ \E watchPath \in WatchPaths : OnStateChange(watchPath)
     /\ UNCHANGED <<extVars, dbVars, archVars>>
  \/ /\ \E s \in DOMAIN subscriptions, currentValue \in Values :
          \E throwing \in SUBSET DOMAIN mWatches[subscriptions[s].key] :
            Notify(s, currentValue, throwing, {})
     /\ UNCHANGED <<extVars, dbVars, archVars>>

\* registrations and notifications in the renderer, with callbacks that set
\* the watched value again
NextNested ==
  \/ /\ SetStore
     /\ UNCHANGED <<extVars, dbVars, archVars>>
  \/ /\ \E watchPath \in WatchPaths : OnStateChange(watchPath)
     /\ UNCHANGED <<extVars, dbVars, archVars>>
  \/ /\ \E s \in DOMAIN subscriptions, currentValue \in Values :
          \E resetting \in SUBSET DOMAIN mWatches[subscriptions[s].key] :
            Notify(s, currentValue, {}, resetting)
     /\ UNCHANGED <<extVars, dbVars, archVars>>

(***************************************************************************)
(* openArchive                                                             *)
(***************************************************************************)

\* the archive formats and the paths the modelled callers open; a path is
\* the sequence of the parts of its base name between the dots
Formats == {"zip", "7z"}
ArchivePaths == {<<"mod", "zip">>, <<"mod", "tar", "7z">>, <<"mod", "rar">>,
                 <<"mod">>, <<"", "zip">>, <<"mod", "constructor">>}

\* path.extname(archivePath).substr(1): what follows the last dot of the base
\* name, '' when there is no dot or when the only dot is the first character
ExtName(parts) ==
  IF Len(parts) <= 1 \/ (Len(parts) = 2 /\ parts[1] = "")
    THEN ""
    ELSE parts[Len(parts)]

NoHandlers == [defined |-> FALSE, table |-> [f \in {} |-> 0]]
NoOpen == [archivePath |-> <<>>, result |-> "none", creator |-> 0, built |-> FALSE]

InitArch ==
  /\ mArchiveHandlers = NoHandlers
  /\ archiveRegistered = <<>>
  /\ lastOpen = NoOpen

\* registerArchiveHandler(extension, handler) for each call in turn:
\* this.mArchiveHandlers[extension] = handler
RECURSIVE RegisterArchiveHandlersFirstWins(_, _)
RegisterArchiveHandlersFirstWins(table, archiveCalls) ==
  IF archiveCalls = <<>> THEN table
  ELSE LET extension == Head(archiveCalls).arguments[1]
           handler == Head(archiveCalls).arguments[2]
       IN  RegisterArchiveHandlersFirstWins(
             [f \in DOMAIN table \cup {extension} |->
                IF f \in DOMAIN table THEN table[f] ELSE handler],
             Tail(archiveCalls))
RECURSIVE RegisterArchiveHandlers(_, _)
RegisterArchiveHandlers(table, archiveCalls) ==
  IF archiveCalls = <<>> THEN table
  ELSE LET extension == Head(archiveCalls).arguments[1]
           handler == Head(archiveCalls).arguments[2]
       IN  RegisterArchiveHandlers(
             [f \in DOMAIN table \cup {extension} |->
                IF f = extension THEN handler ELSE table[f]],
             Tail(archiveCalls))

\* the table is a plain object ({}), so a property lookup that finds no own
\* property goes on to Object.prototype
InheritedKeys == {"constructor"}
Undefined == 0            \* stands for undefined
ObjectFunction == 0 - 1   \* stands for the function Object.prototype.constructor

\* this.mArchiveHandlers[ext]
Creator(table, ext) ==
  IF ext \in DOMAIN table THEN table[ext]
  ELSE IF ext \in InheritedKeys THEN ObjectFunction
  ELSE Undefined

\* openArchive(archivePath): the first call builds the handler table with
\* apply('registerArchiveType', registerArchiveHandler); without a creator for
\* the format the promise returned is rejected, else the creator is called
\* and its promise (resolves or rejects) decides; Object called as the
\* creator returns a String object, which has no then: a TypeError is thrown
OpenArchive(archivePath, creatorOutcome) ==
  LET archiveCalls == GetCalls(mInitCalls, "registerArchiveType")
      table == IF mArchiveHandlers.defined
                 THEN mArchiveHandlers.table
                 ELSE RegisterArchiveHandlers(NoHandlers.table, archiveCalls)
      creator == Creator(table, ExtName(archivePath))
  IN  /\ phase = "ready"
      /\ mArchiveHandlers' = [defined |-> TRUE, table |-> table]
      /\ archiveRegistered' =
           IF mArchiveHandlers.defined THEN archiveRegistered
           ELSE archiveRegistered
                  \o [k \in DOMAIN archiveCalls |-> archiveCalls[k].arguments]
      /\ lastOpen' =
           [archivePath |-> archivePath,
            result |-> IF creator = Undefined THEN "unsupported"
                       ELSE IF creator = ObjectFunction THEN "throws"
                       ELSE IF creatorOutcome = "resolves" THEN "archive"
                       ELSE "creatorError",
            creator |-> creator,
            built |-> ~mArchiveHandlers.defined]

\* the logs openArchive is explored on: up to MaxArchiveTypes calls to
\* registerArchiveType(extension, handler), recorded by the built-in
\* extension and by a dynamic one, the handler being named by the position
\* of the call
ArchiveExtensions ==
  LoadExtensions(<<>>, <<[name |-> "plugin_a", isDirectory |-> TRUE, index |-> "ok"]>>)
ArchiveLogs ==
  {[k \in 1..n |->
      [extension |-> ArchiveExtensions[who[k]].name,
       extensionPath |-> ArchiveExtensions[who[k]].path,
       key |-> "registerArchiveType", arguments |-> <<format[k], k>>,
       optional |-> FALSE]] :
     n \in 0..MaxArchiveTypes,
     who \in [1..MaxArchiveTypes -> DOMAIN ArchiveExtensions],
     format \in [1..MaxArchiveTypes -> Formats]}

\* the manager after construction, the extensions having recorded calls to
\* registerArchiveType only
InitConstructed ==
  /\ sUIAPIs = {}
  /\ phase = "ready"
  /\ mExtensions = ArchiveExtensions
  /\ cursor = Len(ArchiveExtensions)
  /\ mCurrentExtension = ArchiveExtensions[Len(ArchiveExtensions)].name
  /\ mCurrentPath = ArchiveExtensions[Len(ArchiveExtensions)].path
  /\ mInitCalls \in {log \in ArchiveLogs :
                      \A k, l \in DOMAIN log :
                        k < l => log[k].extensionPath = log[l].extensionPath
                                 \/ log[k].extensionPath = ArchiveExtensions[1].path}
  /\ mApiAdditions = <<>>
  /\ disk = [builtin |-> [i \in DOMAIN staticExtensions |-> "ok"],
             bundled |-> <<>>,
             plugins |-> <<[name |-> "plugin_a", isDirectory |-> TRUE, index |-> "ok"]>>]
  /\ initOrder = ArchiveExtensions
  /\ setLog = <<>>
  /\ initThrew = {}
  /\ recordedCalls = mInitCalls
  /\ ignoredLog = {}
  /\ lastOp = NoOp
  /\ invoked = <<>>
  /\ onceRuns = 0
  /\ onceInvoked = <<>>

NextArchive ==
  /\ \E archivePath \in ArchivePaths, creatorOutcome \in {"resolves", "rejects"} :
       OpenArchive(archivePath, creatorOutcome)
  /\ UNCHANGED <<extVars, dbVars, watchVars>>

Init == InitExt /\ InitDB /\ InitWatch /\ InitArch
InitArchive == InitConstructed /\ InitDB /\ InitWatch /\ InitArch

SpecExt == Init /\ [][NextExt]_vars
SpecReg == Init /\ [][NextReg]_vars
SpecLoad == Init /\ [][NextLoad]_vars
SpecFate == Init /\ [][NextFate]_vars
SpecDB == Init /\ [][NextDB]_vars
SpecUse == Init /\ [][NextUse]_vars
SpecDBLive == Init /\ [][NextDBLive]_vars /\ \A c \in LiveCallers : WF_vars(CallerStep(c))
SpecWatch == Init /\ [][NextWatch]_vars
SpecNotify == Init /\ [][NextNotify]_vars
SpecNested == Init /\ [][NextNested]_vars
SpecArchive == InitArchive /\ [][NextArchive]_vars
(***************************************************************************)
(* Extension pipeline: the claims                                          *)
(***************************************************************************)

\* the full capability set as the specification defines it: the static
\* capabilities, the UI capabilities and every capability addition
AddedKeys == {mApiAdditions[i].key : i \in DOMAIN mApiAdditions}
CapabilitySet == staticAPIs \cup sUIAPIs \cup AddedKeys

\* a recorded call that disqualifies its extension
BadCall(c) == ~c.optional /\ c.key \notin CapabilitySet

\* extensions are identified by name, as in IInitCall.extension
ExtensionNames == {mExtensions[i].name : i \in DOMAIN mExtensions}
CallsOf(log, n) == SelectSeq(log, LAMBDA c : c.extension = n)
Disqualifying(n) == \E c \in Range(CallsOf(recordedCalls, n)) : BadCall(c)
OnlySupported(n) == \A c \in Range(CallsOf(recordedCalls, n)) : c.key \in CapabilitySet

\* how often the last replay operation passed the call c to a handler
TimesInvoked(c) == Cardinality({k \in DOMAIN invoked : invoked[k].call = c})

\* C1: all-or-nothing disqualification. Once unloadIncompatible has run, no
\* recorded call of an extension that recorded a non-optional call to a
\* capability outside the full capability set is left in the log, and none
\* is passed to a handler by apply, invokeAdditions or doOnce: not its calls
\* to valid capabilities, not its optional calls.
C1_AllOrNothing ==
  phase = "ready" =>
    \A n \in ExtensionNames :
      Disqualifying(n) =>
        /\ CallsOf(mInitCalls, n) = <<>>
        /\ \A k \in DOMAIN invoked : invoked[k].call.extension # n

\* C1 witness: an extension recorded an unsupported non-optional call, a call
\* to a static capability and an optional call, and apply has replayed that
\* static capability.
C1_Witness ==
  /\ phase = "ready"
  /\ \E n \in ExtensionNames :
       /\ Disqualifying(n)
       /\ \E c \in Range(CallsOf(recordedCalls, n)) :
            /\ ~c.optional /\ c.key \in staticAPIs
            /\ lastOp.op = "apply" /\ lastOp.name = c.key
       /\ \E c \in Range(CallsOf(recordedCalls, n)) : c.optional

SurvivingCallsTo(f) ==
  SelectSeq(recordedCalls, LAMBDA c : c.key = f /\ ~Disqualifying(c.extension))

\* the calls the last replay operation passed to handler h, in order
PassedTo(h) ==
  LET sel == SelectSeq(invoked, LAMBDA v : v.handler = h)
  IN  [k \in DOMAIN sel |-> sel[k].call]

C3_OptionalNeverDisqualifies ==
  phase = "ready" =>
    /\ \A n \in ExtensionNames :
         (\A c \in Range(CallsOf(recordedCalls, n)) :
             c.key \notin CapabilitySet => c.optional)
           => CallsOf(mInitCalls, n) = CallsOf(recordedCalls, n)
    /\ \A k \in DOMAIN invoked :
         ~(invoked[k].call.optional /\ invoked[k].call.key \notin CapabilitySet)

\* C3 witness: an extension recorded an optional call to an unsupported
\* capability and a call to a static capability; the optional call is still
\* in the log and apply has passed the other call to its handler.
C3_Witness ==
  /\ phase = "ready"
  /\ lastOp.op = "apply"
  /\ \E n \in ExtensionNames :
       /\ \E c \in Range(CallsOf(mInitCalls, n)) :
            c.optional /\ c.key \notin CapabilitySet
       /\ \E k \in DOMAIN invoked : invoked[k].call.extension = n

\* the run of the registration pass with the extensions in the order p: the
\* log and the additions each extension produced, concatenated in that order
RECURSIVE ReorderedCalls(_, _)
ReorderedCalls(p, i) ==
  IF i > Len(mExtensions) THEN <<>>
  ELSE SelectSeq(recordedCalls,
                 LAMBDA c : c.extensionPath = mExtensions[p[i]].path)
         \o ReorderedCalls(p, i + 1)
RECURSIVE ReorderedAdditions(_, _)
ReorderedAdditions(p, i) ==
  IF i > Len(mExtensions) THEN <<>>
  ELSE SelectSeq(mApiAdditions, LAMBDA a : a.callback.ext = p[i])
         \o ReorderedAdditions(p, i + 1)

\* C4: load-order independence. Whatever the order of registration, the same
\* extensions are disqualified; a non-optional call to a capability some
\* extension added (before or after the call) does not disqualify the
\* caller.
C4_LoadOrderIndependent ==
  phase = "ready" =>
    /\ \A p \in Permutations(DOMAIN mExtensions) :
         IncompatibleExtensions(ReorderedCalls(p, 1),
                                FullAPI(sUIAPIs, ReorderedAdditions(p, 1)))
           = ignoredLog
    /\ \A n \in ExtensionNames :
         (\A c \in Range(CallsOf(recordedCalls, n)) :
             c.optional \/ c.key \in staticAPIs \cup sUIAPIs \cup AddedKeys)
           => /\ n \notin ignoredLog
              /\ CallsOf(mInitCalls, n) = CallsOf(recordedCalls, n)

\* C4 witness: the first extension called a capability that is neither
\* static nor a UI capability, the second extension added it afterwards, and
\* the call is still in the log after filtering.
C4_Witness ==
  /\ phase = "ready"
  /\ \E c \in Range(mInitCalls) :
       /\ ~c.optional
       /\ c.key \notin staticAPIs \cup sUIAPIs
       /\ c.extensionPath = mExtensions[1].path
       /\ \A i \in DOMAIN mApiAdditions :
            mApiAdditions[i].key = c.key => mApiAdditions[i].callback.ext = 2
IsPrefix(s, t) == Len(s) <= Len(t) /\ SubSeq(t, 1, Len(s)) = s

C20_RecordsAndTags ==
  /\ [][(phase = "registering" /\ phase' = "registering") =>
          \/ mInitCalls' = mInitCalls
          \/ /\ cursor' = cursor
             /\ Len(mInitCalls') = Len(mInitCalls) + 1
             /\ IsPrefix(mInitCalls, mInitCalls')
             /\ mInitCalls'[Len(mInitCalls')].extension = mExtensions[cursor].name
             /\ mInitCalls'[Len(mInitCalls')].extensionPath = mExtensions[cursor].path]_vars
  /\ [](phase = "registering" =>
          \A k \in DOMAIN mInitCalls :
            \E i \in 1..cursor :
              /\ mInitCalls[k].extension = mExtensions[i].name
              /\ mInitCalls[k].extensionPath = mExtensions[i].path
              /\ \A l \in DOMAIN mInitCalls :
                   (l < k /\ mInitCalls[l].extensionPath # mInitCalls[k].extensionPath)
                     => \E j \in 1..(i - 1) : mInitCalls[l].extensionPath = mExtensions[j].path)

\* C20 witness: during the registration of the second extension the log holds
\* a call of the first extension followed by a call of the second one to a
\* key that is no capability, neither static nor added.
C20_Witness ==
  /\ phase = "registering"
  /\ cursor = 2
  /\ \E k, l \in DOMAIN mInitCalls :
       /\ k < l
       /\ mInitCalls[k].extensionPath = mExtensions[1].path
       /\ mInitCalls[l].extensionPath = mExtensions[2].path
       /\ ~mInitCalls[l].optional
       /\ mInitCalls[l].key \notin CapabilitySet

\* how often the last replay operation passed the call c to the handler h
TimesPassed(c, h) ==
  Cardinality({k \in DOMAIN invoked : invoked[k].call = c /\ invoked[k].handler = h})

\* C21: invokeAdditions invokes, for every call left in the log whose
\* capability is the capability of an addition, the handler of that addition
\* with the arguments of the call followed by the path of the calling
\* extension as last argument; a call whose capability no addition has is
\* passed to no handler.
C21_AdditionsGetArgsAndPath ==
  lastOp.op = "invokeAdditions" =>
    /\ \A c \in Range(mInitCalls), i \in DOMAIN mApiAdditions :
         TimesPassed(c, <<"addition", mApiAdditions[i].callback>>)
           = IF c.key = mApiAdditions[i].key THEN 1 ELSE 0
    /\ \A k \in DOMAIN invoked :
         /\ invoked[k].call \in Range(mInitCalls)
         /\ \E i \in DOMAIN mApiAdditions :
              invoked[k].handler = <<"addition", mApiAdditions[i].callback>>
         /\ Len(invoked[k].args) = Len(invoked[k].call.arguments) + 1
         /\ SubSeq(invoked[k].args, 1, Len(invoked[k].call.arguments))
              = invoked[k].call.arguments
         /\ invoked[k].args[Len(invoked[k].args)] = invoked[k].call.extensionPath
         /\ \E i \in DOMAIN mExtensions :
              /\ mExtensions[i].name = invoked[k].call.extension
              /\ mExtensions[i].path = invoked[k].call.extensionPath
    /\ \A c \in Range(mInitCalls) : c.key \notin AddedKeys => TimesInvoked(c) = 0

\* C21 witness: the log holds a call of the second extension to a capability
\* the first extension added and a call to a capability nobody added;
\* invokeAdditions has passed the first call, and only that one, to the
\* handler.
C21_Witness ==
  /\ lastOp.op = "invokeAdditions"
  /\ Len(invoked) = 1
  /\ invoked[1].call.extensionPath = mExtensions[2].path
  /\ invoked[1].handler[2].ext = 1
  /\ \E c \in Range(mInitCalls) : c.key \notin AddedKeys

\* C22: a disqualified extension is dropped from the filter onwards: doOnce
\* never invokes a deferred startup callback (once / onceMain) that a
\* disqualified extension recorded, and it invokes the startup callback of
\* every other extension that recorded one.
C22_DisqualifiedOnceDropped ==
  lastOp.op = "doOnce" =>
    /\ \A k \in DOMAIN invoked : ~Disqualifying(invoked[k].call.extension)
    /\ \A c \in Range(recordedCalls) :
         c.key = lastOp.name =>
           TimesInvoked(c) = IF Disqualifying(c.extension) THEN 0 ELSE 1

\* C22 witness: two extensions recorded a startup callback, one of them
\* also made an unsupported call and was logged as ignored; doOnce invoked
\* the callback of the other one only.
C22_Witness ==
  /\ lastOp.op = "doOnce"
  /\ Len(invoked) = 1
  /\ \E c \in Range(recordedCalls) :
       /\ c.key = "once"
       /\ Disqualifying(c.extension)
       /\ c.extension \in ignoredLog
       /\ c.extension # invoked[1].call.extension

\* how often doOnce has invoked the startup callback of the call c so far
TimesOnceInvoked(c) == Cardinality({k \in DOMAIN onceInvoked : onceInvoked[k] = c})

\* C27 as stated: over the lifetime of the manager the deferred startup
\* callback of each extension is invoked at most once, whatever operations
\* are performed, repeated doOnce included.
C27_Original ==
  \A c \in Range(recordedCalls) : TimesOnceInvoked(c) <= 1

\* C27 (amended): the manager does not make the run of the startup callbacks
\* terminal. Every call of doOnce invokes the startup callback of every
\* surviving extension once, in recorded order, so over the lifetime of the
\* manager each such callback has been invoked as many times as doOnce was
\* called (at most once only when the host calls doOnce at most once), and
\* no other operation invokes one.
C27_OncePerDoOnce ==
  LET surviving == SurvivingCallsTo("once")
  IN  /\ Len(onceInvoked) = onceRuns * Len(surviving)
      /\ \A k \in DOMAIN onceInvoked :
           onceInvoked[k] = surviving[((k - 1) % Len(surviving)) + 1]
      /\ \A c \in Range(recordedCalls) :
           TimesOnceInvoked(c) =
             IF c.key = "once" /\ ~Disqualifying(c.extension) THEN onceRuns ELSE 0
      /\ lastOp.op # "doOnce" =>
           \A k \in DOMAIN invoked : invoked[k].handler[1] # "once"

\* C27 witness: doOnce was called twice, apply in between or after, and the
\* startup callbacks of two extensions have been invoked twice each.
C27_Witness ==
  /\ onceRuns = 2
  /\ lastOp.op = "apply"
  /\ \E c, d \in Range(recordedCalls) :
       /\ c.extensionPath # d.extensionPath
       /\ TimesOnceInvoked(c) = 2
       /\ TimesOnceInvoked(d) = 2

\* the calls of the log that the extension loaded from path p recorded
CallsFrom(log, p) == SelectSeq(log, LAMBDA c : c.extensionPath = p)

\* C30: disqualification is keyed on the extension name alone. When two
\* loaded extensions share a name and one of them recorded an unsupported
\* non-optional call, unloadIncompatible removes the recorded calls of both,
\* also those of the one that called supported capabilities only.
C30_SameNameSameFate ==
  phase = "ready" =>
    \A i, j \in DOMAIN mExtensions :
      (/\ mExtensions[i].name = mExtensions[j].name
       /\ \E c \in Range(CallsFrom(recordedCalls, mExtensions[i].path)) : BadCall(c))
        => /\ CallsFrom(mInitCalls, mExtensions[i].path) = <<>>
           /\ CallsFrom(mInitCalls, mExtensions[j].path) = <<>>

\* C30 witness: a plugin has the name of a built-in extension; the built-in
\* one recorded an unsupported call, the plugin recorded calls to supported
\* capabilities only, and the filter removed the calls of the plugin too.
C30_Witness ==
  /\ phase = "ready"
  /\ Len(mExtensions) = 2
  /\ mExtensions[1].name = mExtensions[2].name
  /\ mExtensions[1].path # mExtensions[2].path
  /\ \E c \in Range(CallsFrom(recordedCalls, mExtensions[1].path)) : BadCall(c)
  /\ CallsFrom(recordedCalls, mExtensions[2].path) # <<>>
  /\ \A c \in Range(CallsFrom(recordedCalls, mExtensions[2].path)) :
       c.key \in CapabilitySet
  /\ CallsFrom(mInitCalls, mExtensions[2].path) = <<>>

\* the additions made by an extension that the filter disqualified
OrphanAdditions ==
  {i \in DOMAIN mApiAdditions :
     Disqualifying(mExtensions[mApiAdditions[i].callback.ext].name)}

\* C31: capability additions are not tied to the fate of the extension that
\* made them. When an extension that added a capability is disqualified,
\* the addition is kept and the capability counts as supported in the
\* filter: a call to it disqualifies no other extension; and
\* invokeAdditions passes every surviving call to the capability to the
\* handler of the disqualified extension.
C31_AdditionsOutliveAdder ==
  phase = "ready" =>
    \A i \in OrphanAdditions :
      /\ \A n \in ExtensionNames :
           (\A c \in Range(CallsOf(recordedCalls, n)) :
               c.optional \/ c.key \in staticAPIs \cup sUIAPIs \cup {mApiAdditions[i].key})
             => /\ n \notin ignoredLog
                /\ CallsOf(mInitCalls, n) = CallsOf(recordedCalls, n)
      /\ lastOp.op = "invokeAdditions" =>
           PassedTo(<<"addition", mApiAdditions[i].callback>>)
             = GetCalls(mInitCalls, mApiAdditions[i].key)

\* C31 witness: the first extension added a capability and made an
\* unsupported call, so it is disqualified; the second extension called the
\* added capability, its call survived, and invokeAdditions has passed it to
\* the handler of the first extension.
C31_Witness ==
  /\ phase = "ready"
  /\ lastOp.op = "invokeAdditions"
  /\ \E i \in OrphanAdditions :
       /\ mApiAdditions[i].callback.ext = 1
       /\ mExtensions[1].name \in ignoredLog
       /\ \E k \in DOMAIN invoked :
            /\ invoked[k].handler = <<"addition", mApiAdditions[i].callback>>
            /\ invoked[k].call.extensionPath = mExtensions[2].path
            /\ invoked[k].call.extension # mExtensions[1].name
\* the directory an extension was loaded from and its place in the listing
\* of that directory
DirRank(e) == IF e.path[1] = "bundledPlugins" THEN 1 ELSE 2
ListingOf(e) == IF e.path[1] = "bundledPlugins" THEN disk.bundled ELSE disk.plugins
PlaceOf(e) == CHOOSE i \in DOMAIN ListingOf(e) : ListingOf(e)[i].name = e.name
NumStatic == Len(staticExtensions)
Dynamic(k) == k \in DOMAIN mExtensions /\ k > NumStatic

Loads(c) == c.isDirectory /\ c.index = "ok"
NumLoading(listing) == Cardinality({i \in DOMAIN listing : Loads(listing[i])})
TimesLoaded(dir, c) ==
  Cardinality({k \in DOMAIN mExtensions :
                 Dynamic(k) /\ mExtensions[k] = [name |-> c.name, path |-> <<dir, c.name>>]})

OptionalSupported == {c \in Range(mInitCalls) : c.optional /\ c.key \in CapabilitySet}

\* C34: an optional call to a supported capability is applied exactly like a
\* non-optional one, because apply and invokeAdditions select calls by
\* capability name only. apply(name) passes every such call to name exactly
\* once to the host's function, with the recorded arguments; invokeAdditions
\* passes it exactly once to the handler of every addition of its capability,
\* with the arguments followed by the extension path; and in either
\* operation a non-optional call to the same capability is passed to the
\* same handlers as often.
C34_OptionalAppliedLikeOthers ==
  /\ lastOp.op = "apply" =>
       \A c \in OptionalSupported :
         /\ TimesPassed(c, <<"func", lastOp.name>>)
              = IF c.key = lastOp.name THEN 1 ELSE 0
         /\ \A k \in DOMAIN invoked :
              invoked[k].call = c => invoked[k].args = c.arguments
  /\ lastOp.op = "invokeAdditions" =>
       \A c \in OptionalSupported :
         /\ \A i \in DOMAIN mApiAdditions :
              TimesPassed(c, <<"addition", mApiAdditions[i].callback>>)
                = IF c.key = mApiAdditions[i].key THEN 1 ELSE 0
         /\ \A k \in DOMAIN invoked :
              invoked[k].call = c =>
                invoked[k].args = Append(c.arguments, c.extensionPath)
  /\ lastOp.op \in {"apply", "invokeAdditions"} =>
       \A c \in OptionalSupported, d \in Range(mInitCalls) :
         (c.key = d.key /\ ~d.optional) =>
           \A k \in DOMAIN invoked :
             TimesPassed(c, invoked[k].handler) = TimesPassed(d, invoked[k].handler)

\* C34 witness: apply has passed an optional and a non-optional call to
\* registerWidget, which the host registered as UI capability, to its function.
C34_Witness ==
  /\ lastOp.op = "apply"
  /\ lastOp.name = "registerWidget"
  /\ "registerWidget" \in sUIAPIs
  /\ \E j, k \in DOMAIN invoked :
       /\ invoked[j].call.optional
       /\ ~invoked[k].call.optional
       /\ invoked[j].call.key = "registerWidget"
       /\ invoked[k].call.key = "registerWidget"

(***************************************************************************)
(* getModDB: the claims                                                    *)
(***************************************************************************)
Called == {c \in Callers : calls[c].pc # "idle"}
Settled(c) == calls[c].pc \in {"resolved", "rejected"}
Alive == {i \in DOMAIN instances : instances[i].state = "open"}

\* every call made so far read the same context
SameContext ==
  \A c, d \in Called :
    /\ calls[c].currentGame = calls[d].currentGame
    /\ calls[c].currentKey = calls[d].currentKey

\* C5: getModDB called any number of times with the same context, starting
\* without a store, constructs the store once and every call that gets a
\* store gets that one.
C5_SingleConstruction ==
  SameContext =>
    /\ Len(instances) <= 1
    /\ \A c \in Callers :
         calls[c].outcome = "instance" =>
           /\ Len(instances) = 1
           /\ calls[c].result = 1
           /\ instances[1].state = "open"

\* C5 witness: every caller has its store, all callers after the first
\* called while the gate of the first was pending, and one store exists.
C5_Witness ==
  /\ SameContext
  /\ Len(instances) = 1
  /\ \A c \in Callers :
       /\ calls[c].pc = "resolved"
       /\ calls[c].result = 1
       /\ c > 1 => calls[c].waited

\* C6: in every reachable state at most one store is alive (constructed and
\* not yet closed).
C6_AtMostOneAlive == Cardinality(Alive) <= 1

\* C7: rotation ordering. Every store but the newest one has been closed, so
\* the prior store was released before the next one was constructed, and a
\* caller that has received a store received it after all the stores before
\* it were released.
C7_ReleasedBeforeNext ==
  /\ \A i \in DOMAIN instances : i < Len(instances) => instances[i].state = "closed"
  /\ \A c \in Callers :
       calls[c].outcome = "instance" =>
         \A j \in 1..(calls[c].result - 1) : instances[j].state = "closed"

ConstructionFails(c) ==
  calls[c].outcome # "constructError" /\ calls'[c].outcome = "constructError"

\* a step in which call c runs the second then() without a store
RunsStep2WithoutStore(c) ==
  calls[c].pc = "step2" /\ calls'[c].pc # "step2" /\ mModDB = 0

\* C9: a failed construction leaves the broker without a store and without a
\* broken result (nothing is stored), the gate is released once the failed
\* call has settled, and a call that finds no store constructs one: it
\* either fails itself or gets the store it has just constructed for its
\* context.
C9_RetryAfterFailure ==
  /\ [](\A c \in Callers :
          (calls[c].onDone /\ Settled(c)) => mModDBPromise = "resolved")
  /\ [][\A c \in Callers :
          /\ ConstructionFails(c) =>
               /\ mModDB' = 0
               /\ UNCHANGED <<mModDBGame, mModDBAPIKey, instances>>
          /\ RunsStep2WithoutStore(c) =>
               \/ ConstructionFails(c)
               \/ /\ calls'[c].outcome = "instance"
                  /\ Len(instances') = Len(instances) + 1
                  /\ calls'[c].result = Len(instances')
                  /\ mModDB' = calls'[c].result
                  /\ instances'[mModDB'] =
                       [game |-> calls[c].currentGame, key |-> calls[c].currentKey,
                        state |-> "open", closeCalls |-> 0]]_vars

\* C9 witness: the first call failed to construct the store, and a call made
\* after it had settled constructed the store and got it.
C9_Witness ==
  \E f, n \in Callers :
    /\ calls[f].onDone /\ calls[f].pc = "rejected" /\ calls[f].outcome = "constructError"
    /\ ~calls[n].onDone /\ ~calls[n].waited /\ calls[n].pc = "resolved"
    /\ calls[n].result = 1
    /\ instances[1].state = "open"

\* C23: no caller uses a released instance. While the operation of a request
\* is running on the store its getModDB call resolved to, close() has not
\* been called on that store: the operation is not issued on a store that a
\* rotation has closed, and no rotation closes the store under it.
C23_NoUseOfReleased ==
  \A c \in Callers :
    calls[c].pc = "operating" =>
      /\ instances[calls[c].result].closeCalls = 0
      /\ instances[calls[c].result].state = "open"

\* C24: every getModDB call that succeeds returns a store that was
\* constructed for the context (active game, API key) the call read.
C24_InstanceForOwnContext ==
  \A c \in Callers :
    calls[c].outcome = "instance" =>
      /\ instances[calls[c].result].game = calls[c].currentGame
      /\ instances[calls[c].result].key = calls[c].currentKey

\* C25: reuse without rotation. A call made when a store exists and the
\* stored context is the context the call reads closes nothing, constructs
\* nothing and returns the store that existed.
C25_ReuseWithoutRotation ==
  \A c \in Callers :
    calls[c].reuse =>
      /\ calls[c].closing = 0
      /\ ~calls[c].constructed
      /\ calls[c].outcome \in {"none", "instance"}
      /\ calls[c].outcome = "instance" => calls[c].result = calls[c].found

\* C26: no permanently stuck broker. Every close and every construction
\* settling, every getModDB call that was made settles (resolves or rejects),
\* and the gate the first caller installed is released, also when that
\* caller's construction fails, so no caller waits on the gate forever.
C26_EveryCallSettles ==
  /\ \A c \in Callers : (calls[c].pc # "idle") ~> Settled(c)
  /\ (mModDBPromise = "pending") ~> (mModDBPromise = "resolved")
  /\ \A c \in Callers :
       (calls[c].waited /\ calls[c].pc = "init") ~> (calls[c].pc # "init")

\* C26 witness: the construction of the caller that installed the gate
\* failed, the gate is released, and every caller, the ones that waited on
\* the gate included, has settled.
C26_Witness ==
  /\ mModDBPromise = "resolved"
  /\ \E f \in Callers : calls[f].onDone /\ calls[f].outcome = "constructError"
  /\ \E w \in Callers : calls[w].waited
  /\ \A c \in LiveCallers : Settled(c)

\* C29: every store that is replaced is released exactly once: close() is
\* never called twice on one store, and a store the broker no longer
\* references has been closed.
C29_ReleasedExactlyOnce ==
  \A i \in DOMAIN instances :
    /\ instances[i].closeCalls <= 1
    /\ i # mModDB => (instances[i].closeCalls = 1 /\ instances[i].state = "closed")
(***************************************************************************)
(* stateChangeHandler: the claims                                          *)
(***************************************************************************)

\* the paths for which a callback has been registered
WatchedPaths ==
  {registrations[i].path :
     i \in {j \in DOMAIN registrations : registrations[j].outcome = "registered"}}

SubscriptionsFor(watchPath) ==
  {i \in DOMAIN subscriptions : subscriptions[i].watchPath = watchPath}

\* C10: after any sequence of onStateChange registrations, each watched path
\* has exactly one subscription on the watcher, however many callbacks were
\* registered for it.
C10_OneSubscriptionPerPath ==
  \A watchPath \in WatchedPaths : Cardinality(SubscriptionsFor(watchPath)) = 1

\* the callbacks that had been registered for the path of the last
\* notification when it came
RegisteredAtNotification ==
  {registrations[i].callback :
     i \in {j \in 1..notified.nregs :
              /\ registrations[j].path = notified.watchPath
              /\ registrations[j].outcome = "registered"}}
TimesFired(cb) == Cardinality({k \in DOMAIN fired : fired[k].callback = cb})

\* C11: change deduplication is per path. A notification whose value equals
\* the last value observed for its path (the value of the last notification
\* of that path that was passed on; undefined before the first) invokes no
\* callback and leaves the last observed value as it is; a notification with
\* another value makes that value the last observed one of the path and
\* invokes every callback registered for the path, each once, with the value.
C11_DedupPerPath ==
  notified # NoNotification =>
    IF notified.currentValue = notified.lastBefore
      THEN fired = <<>> /\ lastValue[notified.key] = notified.lastBefore
      ELSE /\ lastValue[notified.key] = notified.currentValue
           /\ \A cb \in RegisteredAtNotification : TimesFired(cb) = 1
           /\ \A k \in DOMAIN fired : fired[k].args[2] = notified.currentValue

\* C11 witness: two callbacks are registered for one path whose last
\* observed value was "x"; a notification with another value has invoked
\* both.
C11_Witness ==
  /\ notified # NoNotification
  /\ notified.lastBefore = "x"
  /\ notified.currentValue = "y"
  /\ Cardinality(RegisteredAtNotification) = 2
  /\ Len(fired) = 2

CallbacksAtNotification ==
  {cb \in Range(mWatches[notified.key]) : cb <= notified.nregs}

\* C32: the last observed value of a path starts as undefined, so the first
\* notification for a path invokes the callbacks if and only if its value is
\* not undefined: a first change of the watched value to undefined is
\* suppressed.
C32_FirstUndefinedSuppressed ==
  /\ \A k \in DOMAIN lastValue \ notifiedKeys : lastValue[k] = "undefined"
  /\ (notified # NoNotification /\ notified.first) =>
       /\ notified.lastBefore = "undefined"
       /\ IF notified.currentValue = "undefined"
            THEN fired = <<>>
            ELSE \A cb \in CallbacksAtNotification : TimesFired(cb) = 1

\* C32 witness: the first notification of a path with two callbacks had the
\* value undefined and no callback was invoked.
C32_Witness ==
  /\ notified # NoNotification
  /\ notified.first
  /\ notified.currentValue = "undefined"
  /\ Cardinality(CallbacksAtNotification) >= 2
  /\ fired = <<>>

\* C33: the last observed value of a path is updated before its callbacks
\* are invoked, so when a callback sets the watched value again to the value
\* it has and the watcher notifies again from inside the callback, no
\* callback is invoked again: every callback is invoked once for the change
\* and the chain of notifications ends.
C33_NestedNotificationEnds ==
  notified # NoNotification =>
    /\ notified.refired = <<>>
    /\ \A cb \in CallbacksAtNotification :
         TimesFired(cb) = IF notified.currentValue = notified.lastBefore THEN 0 ELSE 1
    /\ fired # <<>> => lastValue[notified.key] = notified.currentValue

\* C33 witness: a notification invoked two callbacks, both of which set the
\* value again, and the nested notifications invoked nothing.
C33_Witness ==
  /\ notified # NoNotification
  /\ notified.resets >= 2
  /\ Len(fired) >= 2
  /\ notified.refired = <<>>

\* the calls of onStateChange that reached stateChangeHandler with a path of
\* the given key, and the path of the first of them
HandledFor(key) ==
  {i \in DOMAIN registrations :
     registrations[i].outcome # "ignored" /\ Join(registrations[i].path) = key}
FirstPathFor(key) ==
  registrations[CHOOSE i \in HandledFor(key) : \A j \in HandledFor(key) : i <= j].path
SubscriptionsOfKey(key) == {s \in DOMAIN subscriptions : subscriptions[s].key = key}

\* C35: watch registrations are keyed by the path segments joined with '.'.
\* Two registrations whose paths differ as sequences but have the same joined
\* key share one callback list, which holds the callbacks of both, and one
\* subscription, which was created for the path registered first for the
\* key; the other path has no subscription of its own.
C35_SharedKeyOneSubscription ==
  \A i, j \in DOMAIN registrations :
    (/\ i < j
     /\ registrations[i].outcome = "registered"
     /\ registrations[j].outcome = "registered"
     /\ registrations[i].path # registrations[j].path
     /\ Join(registrations[i].path) = Join(registrations[j].path)) =>
      LET key == Join(registrations[i].path)
      IN  /\ key \in DOMAIN mWatches
          /\ {registrations[i].callback, registrations[j].callback}
               \subseteq Range(mWatches[key])
          /\ Cardinality(SubscriptionsOfKey(key)) = 1
          /\ \A s \in SubscriptionsOfKey(key) :
               subscriptions[s].watchPath = FirstPathFor(key)
          /\ \A p \in {registrations[i].path, registrations[j].path} \ {FirstPathFor(key)} :
               SubscriptionsFor(p) = {}

(***************************************************************************)
(* openArchive: the claims                                                 *)
(***************************************************************************)

\* the formats for which a surviving call to registerArchiveType exists
RegisteredFormats ==
  {mInitCalls[k].arguments[1] :
     k \in {j \in DOMAIN mInitCalls : mInitCalls[j].key = "registerArchiveType"}}

\* C18: openArchive for a path whose format (file extension) has no
\* registered archive handler returns a rejected promise to the caller,
\* invokes no handler creator, and leaves the handler table as it is: one
\* creator for each registered format, none for the format asked for.
C18_UnsupportedFormatRejected ==
  (lastOpen # NoOpen /\ ExtName(lastOpen.archivePath) \notin RegisteredFormats) =>
    /\ lastOpen.result = "unsupported"
    /\ lastOpen.creator = Undefined
    /\ DOMAIN mArchiveHandlers.table = RegisteredFormats

\* the recorded calls to registerArchiveType, and the last of them for format f
ArchiveTypeCalls == SelectSeq(mInitCalls, LAMBDA c : c.key = "registerArchiveType")
LastCallFor(f) ==
  ArchiveTypeCalls[CHOOSE k \in DOMAIN ArchiveTypeCalls :
                     /\ ArchiveTypeCalls[k].arguments[1] = f
                     /\ \A l \in DOMAIN ArchiveTypeCalls :
                          ArchiveTypeCalls[l].arguments[1] = f => l <= k]

\* C28: the archive handlers are initialised lazily and exactly once. Before
\* the first openArchive call there is no table and no handler has been
\* registered; the first call registers the handlers of the recorded calls
\* to registerArchiveType, one registration per call, in recorded order, so
\* the table holds for each format the handler of the last call for it (of
\* two extensions the one later in load order wins); later calls register
\* nothing and leave the table as it is.
C28_LazyBuiltOnce ==
  /\ [](IF lastOpen = NoOpen
          THEN ~mArchiveHandlers.defined /\ archiveRegistered = <<>>
          ELSE /\ mArchiveHandlers.defined
               /\ archiveRegistered =
                    [k \in DOMAIN ArchiveTypeCalls |-> ArchiveTypeCalls[k].arguments]
               /\ DOMAIN mArchiveHandlers.table = RegisteredFormats
               /\ \A f \in RegisteredFormats :
                    mArchiveHandlers.table[f] = LastCallFor(f).arguments[2])
  /\ [][/\ lastOpen'.built = (lastOpen = NoOpen)
        /\ lastOpen # NoOpen => UNCHANGED <<mArchiveHandlers, archiveRegistered>>]_vars

\* C28 witness: the built-in extension and the dynamic one registered the
\* same format; openArchive was called a second time, did not build the
\* table, and the table holds the handler of the dynamic extension.
C28_Witness ==
  /\ lastOpen # NoOpen
  /\ ~lastOpen.built
  /\ Len(ArchiveTypeCalls) = 2
  /\ ArchiveTypeCalls[1].arguments[1] = ArchiveTypeCalls[2].arguments[1]
  /\ ArchiveTypeCalls[1].extension = ArchiveExtensions[1].name
  /\ ArchiveTypeCalls[2].extension = ArchiveExtensions[2].name
  /\ mArchiveHandlers.table[ArchiveTypeCalls[1].arguments[1]]
       = ArchiveTypeCalls[2].arguments[2]
====
